---- MODULE Spec2Model ----
(***************************************************************************)
(* neovim-mcp: the remote session protocol layer (NvimClient) and the tool *)
(* handlers (NvimToolbox) that call it.                                    *)
(*                                                                         *)
(* Text is a sequence of tokens.  A token is one character ("'", ":", " ") *)
(* or a run of characters that no operation of the program looks inside    *)
(* ("execute", "filename", a rendered number).  Quotes, colons, blanks,    *)
(* brackets and commas are always tokens of their own, so quoting,         *)
(* trimming and prefix tests work on them exactly as on characters.        *)
(***************************************************************************)
EXTENDS Integers, Sequences, FiniteSets, TLC

\* ------------------------------------------------------------------ bounds
\* Longest command text a request carries.
MaxCmdLen == 2
\* Longest quickfix item list a request carries.
MaxItems == 2
\* Lines of the buffer, and columns a selection end can be in.
MaxLines == 3
MaxCol == 2
\* Longest issue list the session holds.
MaxDiags == 2

\* ------------------------------------------------------------- text helpers
Q == "'"
WhiteSpace == {" ", "\t", "\n", "\r"}

RECURSIVE TrimLeft(_)
TrimLeft(s) ==
    IF s = <<>> THEN <<>>
    ELSE IF Head(s) \in WhiteSpace THEN TrimLeft(Tail(s)) ELSE s

RECURSIVE TrimRight(_)
TrimRight(s) ==
    IF s = <<>> THEN <<>>
    ELSE IF s[Len(s)] \in WhiteSpace THEN TrimRight(SubSeq(s, 1, Len(s) - 1)) ELSE s

\* strings.TrimSpace
TrimSpace(s) == TrimRight(TrimLeft(s))

\* strings.HasPrefix
HasPrefix(s, pre) == Len(s) >= Len(pre) /\ SubSeq(s, 1, Len(pre)) = pre

\* strings.Join
RECURSIVE Join(_, _)
Join(parts, sep) ==
    IF parts = <<>> THEN <<>>
    ELSE IF Len(parts) = 1 THEN parts[1]
    ELSE parts[1] \o sep \o Join(Tail(parts), sep)

\* strings.ReplaceAll(s, "'", "''"), halving s to keep the evaluation shallow.
RECURSIVE escapeVimString(_)
escapeVimString(s) ==
    IF s = <<>> THEN <<>>
    ELSE IF Len(s) = 1 THEN (IF s[1] = Q THEN <<Q, Q>> ELSE s)
    ELSE LET h == Len(s) \div 2
         IN  escapeVimString(SubSeq(s, 1, h)) \o escapeVimString(SubSeq(s, h + 1, Len(s)))

\* All token sequences over alphabet A of length at most n.
StrUpTo(A, n) == UNION {[1..k -> A] : k \in 0..n}

Range(s) == {s[i] : i \in 1..Len(s)}

\* --------------------------------------------------------------- inputs
Workers == {"w1", "w2"}

CmdAlphabet == {":", " ", "\t", "a", Q}
\* Command texts of the serialized dispatcher, and the few the overlapping
\* dispatcher draws from.
SeqCmds == StrUpTo(CmdAlphabet, MaxCmdLen)
ConcCmds == {<<>>, <<"a">>, <<":", "a">>}

\* What the session prints for an executed command (before trimming).
Stdouts == {<<>>, <<"\n">>, <<"o", "\n">>, <<" ", "o">>}
\* Values a command can leave in v:errmsg.
ErrVals == {<<"E">>, <<" ">>}

\* ------------------------------------------------------------- variables
VARIABLES
    env,        \* the process environment: NVIM, XDG_CACHE_HOME, HOME, cwd
    fs,         \* socket paths that exist on disk
    socketPath, \* NvimToolbox.client.socketPath
    errmsg,     \* v:errmsg of the editor session
    errBy,      \* who wrote errmsg: a worker's running request, "stale", "none"
    op,         \* the handler each worker runs
    pc,         \* its position: the channel call it issues next
    phase,      \* PopulateQuickfix: "set" or "open" ("" otherwise)
    command,    \* the argument of the running NvimClient.ExecuteCommand
    items,      \* the argument of PopulateQuickfix
    output,     \* locals: ExecuteCommand's output, GetBufferContext's builder
    mode,       \* GetBufferContext's mode
    seen,       \* what the check call read: [read, raw, by]
    sent,       \* channel calls issued by the running request, in order
    logged,     \* log.Printf lines of the running request
    returned,   \* what the last NvimClient.ExecuteCommand call returned
    result,     \* the handler's *mcp.CallToolResult
    raised,     \* what the running ExecuteCommand's own command wrote to v:errmsg
                \* of the session that is still running
    held,       \* what the session held when a read call was evaluated
    blocked,    \* workers inside a channel call whose process never exits
    cancelled,  \* workers whose request's ctx the caller has cancelled
    editorMode, \* the mode the editor is in: n, i, v, t (terminal), c (command line)
    cmdline,    \* what has been typed into the editor's command line
    typeahead,  \* keys --remote-send has delivered and the editor has not yet taken
    sendLog,    \* the last send-keystrokes ExecuteCommand: its argument, keys, result
    startedIn   \* the mode the editor was in when it took the first key of a send

vars == <<env, fs, socketPath, errmsg, errBy, op, pc, phase, command, items,
          output, mode, seen, sent, logged, returned, result, raised, held, blocked,
          cancelled, editorMode, cmdline, typeahead, sendLog, startedIn>>

sessionVars == <<errmsg, errBy>>
keyVars == <<editorMode, cmdline, typeahead, sendLog, startedIn>>
worldVars == <<env, fs, keyVars>>

NoArg == <<"<no argument>">>
NoResult == [isError |-> FALSE, text |-> <<"<pending>">>]
NoSeen == [read |-> FALSE, raw |-> <<>>, by |-> "none"]
NoReturn == [ok |-> TRUE, text |-> <<"<running>">>]
NoHeld == [diagnostics |-> <<>>, buffer |-> <<>>, anchor |-> <<0, 0>>, cursor |-> <<0, 0>>]

\* ------------------------------------------------------ session location
DefaultEnv == [NVIM |-> <<>>, XDG_CACHE_HOME |-> <<>>, HOME |-> <<"home">>,
               pwd |-> <<"work", "proj">>, pwdErr |-> FALSE]

\* filepath.Base
Base(path) == IF path = <<>> THEN "." ELSE path[Len(path)]

\* <cache-root>/nvim/<basename(cwd)>.sock
DerivedSocket(e) ==
    LET cacheDir == IF e.XDG_CACHE_HOME = <<>> THEN e.HOME \o <<".cache">>
                    ELSE e.XDG_CACHE_HOME
    IN  cacheDir \o <<"nvim">> \o <<Base(e.pwd) \o ".sock">>

\* findNvimSocket taking $NVIM without asking os.Stat.
findNvimSocketUnchecked(e, files) ==
    IF e.NVIM # <<>> THEN e.NVIM
    ELSE IF e.pwdErr THEN <<>>
    ELSE IF DerivedSocket(e) \in files THEN DerivedSocket(e)
    ELSE <<>>

\* findNvimSocket returning the derived path without asking os.Stat.
findNvimSocketNoStat(e, files) ==
    IF e.NVIM # <<>> /\ e.NVIM \in files THEN e.NVIM
    ELSE IF e.pwdErr THEN <<>>
    ELSE DerivedSocket(e)

\* findNvimSocket: "" (the empty path) when nothing is found.
findNvimSocket(e, files) ==
    IF e.NVIM # <<>> /\ e.NVIM \in files THEN e.NVIM
    ELSE IF e.pwdErr THEN <<>>
    ELSE IF DerivedSocket(e) \in files THEN DerivedSocket(e)
    ELSE <<>>

CacheSock == DerivedSocket(DefaultEnv)
SocketFiles == {CacheSock}

\* Environments the process may be started in: $NVIM set, $XDG_CACHE_HOME
\* set, both, neither, and a working directory os.Getwd cannot name.
NvimSock == <<"run", "nvim.7.0">>
Envs ==
    {DefaultEnv,
     [DefaultEnv EXCEPT !.NVIM = NvimSock],
     [DefaultEnv EXCEPT !.XDG_CACHE_HOME = <<"xdg">>],
     [DefaultEnv EXCEPT !.NVIM = NvimSock, !.XDG_CACHE_HOME = <<"xdg">>],
     [DefaultEnv EXCEPT !.pwdErr = TRUE]}
\* The socket paths findNvimSocket can ask os.Stat about in environment e.
SocketsOf(e) == (IF e.NVIM = <<>> THEN {} ELSE {e.NVIM}) \cup {DerivedSocket(e)}

\* ensureConnection looking again whenever the path it holds is gone.
ensureConnectionRevalidating(path, e, files) ==
    IF path = <<>> \/ path \notin files THEN findNvimSocket(e, files) ELSE path

\* ensureConnection: the socket path the handler goes on with ("" = error).
ensureConnection(path, e, files) ==
    IF path = <<>> THEN findNvimSocket(e, files) ELSE path

ErrText(msg) == [isError |-> TRUE, text |-> msg]
OkText(msg) == [isError |-> FALSE, text |-> msg]
NotFoundMsg == <<"no Neovim instance found: ", "no Neovim instance found for current directory">>
BindMsg == <<"failed to bind arguments: ", "json">>

\* ------------------------------------------------------- remote channel
ChannelErr == <<"failed to execute expression: ", "exit status 1", ", stderr: ", "E247">>

\* remoteExpr: the (string, error) pair of one channel call.
remoteExpr(ok, stdout) ==
    IF ok THEN [ok |-> TRUE, text |-> TrimSpace(stdout)]
    ELSE [ok |-> FALSE, text |-> ChannelErr]

ClearExpr == <<"execute", "(", Q, "let v:errmsg = ", "\"", "\"", Q, ")">>
ReadErrExpr == <<"v:errmsg">>
ExecExpr(normalizedCommand) ==
    <<"execute", "(", Q>> \o escapeVimString(normalizedCommand) \o <<Q, ")">>

\* One channel call: the socket and expression given to nvim, and whether the
\* process exited zero.
Call(expr, ok) == [sock |-> socketPath, expr |-> expr, ok |-> ok]

\* ------------------------------------------------------ command executor
\* ExecuteCommand, input validation, comparing the untrimmed text.
IsBlankCommandNoTrim(cmd) == cmd = <<>>

\* ExecuteCommand, input validation.
IsBlankCommand(cmd) == TrimSpace(cmd) = <<>>

\* ExecuteCommand, normalization removing every leading colon.
RECURSIVE NormalizeCommandAll(_)
NormalizeCommandAll(cmd) ==
    IF HasPrefix(cmd, <<":">>) THEN NormalizeCommandAll(Tail(cmd)) ELSE cmd

\* ExecuteCommand, normalization.
NormalizeCommand(cmd) == IF HasPrefix(cmd, <<":">>) THEN Tail(cmd) ELSE cmd

ValidationMsg == <<"command cannot be empty">>

\* ExecuteCommand deciding after the third channel call without looking at
\* what it read.
CheckOutcomeUnread(r, out, cmd) ==
    IF TrimSpace(out) = <<>>
    THEN [ok |-> TRUE, text |-> <<"Command executed successfully: ">> \o cmd]
    ELSE [ok |-> TRUE, text |-> out]

\* ExecuteCommand returning the captured output whatever it is.
CheckOutcomeNoEcho(r, out, cmd) ==
    IF r.ok /\ TrimSpace(r.text) # <<>>
    THEN [ok |-> FALSE, text |-> <<"vim error: ">> \o r.text]
    ELSE [ok |-> TRUE, text |-> out]

\* ExecuteCommand after the third channel call: r is what remoteExpr gave
\* for v:errmsg, out the output of the execute call, cmd the raw command.
CheckOutcome(r, out, cmd) ==
    IF r.ok /\ TrimSpace(r.text) # <<>>
    THEN [ok |-> FALSE, text |-> <<"vim error: ">> \o r.text]
    ELSE IF TrimSpace(out) = <<>>
    THEN [ok |-> TRUE, text |-> <<"Command executed successfully: ">> \o cmd]
    ELSE [ok |-> TRUE, text |-> out]

ClearFailed(r) == [ok |-> FALSE, text |-> <<"failed to clear error message: ">> \o r.text]
ExecFailed(r) == [ok |-> FALSE, text |-> <<"failed to execute command: ">> \o r.text]

\* ExecuteCommand (tool handler): the *mcp.CallToolResult for what the client returned.
ExecuteCommandResult(cres) ==
    IF cres.ok THEN OkText(cres.text)
    ELSE ErrText(<<"failed to execute command: ">> \o cres.text)

\* ---------------------------------------------------- quickfix serializer
\* The items requests carry: plain; with column and type; a quote in the
\* file name and the text with a column below 1; a type holding quotes.
PlainItem == [Filename |-> <<"f">>, Line |-> 1, Column |-> 0, Text |-> <<"t">>, Type |-> <<>>]
FullItem == [Filename |-> <<"f">>, Line |-> 2, Column |-> 3, Text |-> <<"t">>, Type |-> <<"E">>]
QuoteItem == [Filename |-> <<"it", Q, "s.go">>, Line |-> 1, Column |-> -1,
              Text |-> <<Q>>, Type |-> <<"W">>]
OddTypeItem == [Filename |-> <<"f">>, Line |-> 1, Column |-> 0, Text |-> <<"t">>,
                Type |-> <<Q, ",", " ", Q, "col", Q, ":", " ", Q, "5">>]
QfItems == {PlainItem, FullItem, QuoteItem, OddTypeItem}
SeqItemLists == StrUpTo(QfItems, MaxItems)
ConcItemLists == {<<PlainItem>>}

Sep == <<",", " ">>
Key(name) == <<Q, name, Q, ":", " ">>
Quoted(s) == <<Q>> \o s \o <<Q>>

\* quickfixItemsToVimList, the loop body: the parts of one dictionary.
ItemParts(item) ==
    <<Key("filename") \o Quoted(escapeVimString(item.Filename))>>
    \o <<Key("lnum") \o <<ToString(item.Line)>> >>
    \o (IF item.Column > 0 THEN <<Key("col") \o <<ToString(item.Column)>> >> ELSE <<>>)
    \o <<Key("text") \o Quoted(escapeVimString(item.Text))>>
    \o (IF item.Type # <<>> THEN <<Key("type") \o Quoted(item.Type)>> ELSE <<>>)

quickfixItemsToVimList(its) ==
    <<"[">> \o Join([i \in 1..Len(its) |-> <<"{">> \o Join(ItemParts(its[i]), Sep) \o <<"}">>], Sep)
    \o <<"]">>

\* SetQuickfixList / OpenQuickfixWindow: the command each hands to ExecuteCommand.
SetQuickfixListCommand(its) == <<"call setqflist", "(">> \o quickfixItemsToVimList(its) \o <<")">>
OpenQuickfixWindowCommand == <<"copen">>

PopulatedMsg(its) == <<"Successfully populated quickfix list with ", ToString(Len(its)), " items">>
OpenWarning(cres) == <<"Warning: Could not open quickfix window: ">> \o cres.text

\* PopulateQuickfix giving up on any failed step.
PopulateQuickfixAfterStrict(ph, cres, its) ==
    IF ~cres.ok
    THEN [next |-> "done", warn |-> <<>>,
          result |-> ErrText(<<"failed to set quickfix list: ">> \o cres.text)]
    ELSE IF ph = "set" THEN [next |-> "open", warn |-> <<>>, result |-> NoResult]
    ELSE [next |-> "done", warn |-> <<>>, result |-> OkText(PopulatedMsg(its))]

\* PopulateQuickfix: what the handler does when SetQuickfixList ("set") or
\* OpenQuickfixWindow ("open") has returned cres.
PopulateQuickfixAfter(ph, cres, its) ==
    IF ph = "set"
    THEN IF ~cres.ok
         THEN [next |-> "done", warn |-> <<>>,
               result |-> ErrText(<<"failed to set quickfix list: ">> \o cres.text)]
         ELSE [next |-> "open", warn |-> <<>>, result |-> NoResult]
    ELSE [next |-> "done",
          warn |-> IF ~cres.ok THEN <<OpenWarning(cres)>> ELSE <<>>,
          result |-> OkText(PopulatedMsg(its))]

\* ------------------------------------------------------ worker plumbing
\* A worker's locals as one record, and the step that stores changed ones.
Cur(p) ==
    [op |-> op[p], pc |-> pc[p], phase |-> phase[p], command |-> command[p],
     items |-> items[p], output |-> output[p], mode |-> mode[p], seen |-> seen[p],
     sent |-> sent[p], logged |-> logged[p], returned |-> returned[p],
     result |-> result[p], raised |-> raised[p], held |-> held[p]]

Idle ==
    [op |-> "none", pc |-> "idle", phase |-> "", command |-> NoArg, items |-> <<>>,
     output |-> <<>>, mode |-> <<>>, seen |-> NoSeen, sent |-> <<>>, logged |-> <<>>,
     returned |-> NoReturn, result |-> NoResult, raised |-> <<>>, held |-> NoHeld]

Commit(p, changes) ==
    LET n == changes @@ Cur(p) IN
    /\ op' = [op EXCEPT ![p] = n.op]
    /\ pc' = [pc EXCEPT ![p] = n.pc]
    /\ phase' = [phase EXCEPT ![p] = n.phase]
    /\ command' = [command EXCEPT ![p] = n.command]
    /\ items' = [items EXCEPT ![p] = n.items]
    /\ output' = [output EXCEPT ![p] = n.output]
    /\ mode' = [mode EXCEPT ![p] = n.mode]
    /\ seen' = [seen EXCEPT ![p] = n.seen]
    /\ sent' = [sent EXCEPT ![p] = n.sent]
    /\ logged' = [logged EXCEPT ![p] = n.logged]
    /\ returned' = [returned EXCEPT ![p] = n.returned]
    /\ result' = [result EXCEPT ![p] = n.result]
    /\ raised' = [raised EXCEPT ![p] = n.raised]
    /\ held' = [held EXCEPT ![p] = n.held]
    /\ blocked' = blocked
    /\ cancelled' = IF n.pc = "idle" THEN cancelled \ {p} ELSE cancelled

\* NvimClient.ExecuteCommand has returned cres (with local output out) to the
\* handler whose locals are l: what the handler does next.
ClientReturn(l, cres, out) ==
    IF l.op = "ExecuteCommand"
    THEN [pc |-> "done", returned |-> cres, output |-> out,
          result |-> ExecuteCommandResult(cres)]
    ELSE LET d == PopulateQuickfixAfter(l.phase, cres, l.items) IN
         IF d.next = "done"
         THEN [pc |-> "done", returned |-> cres, output |-> out,
               result |-> d.result, logged |-> l.logged \o d.warn]
         ELSE IF IsBlankCommand(OpenQuickfixWindowCommand)
         THEN LET e == [ok |-> FALSE, text |-> ValidationMsg]
                  d2 == PopulateQuickfixAfter("open", e, l.items)
              IN  [pc |-> "done", phase |-> "open", command |-> OpenQuickfixWindowCommand,
                   returned |-> e, output |-> <<>>, seen |-> NoSeen, raised |-> <<>>,
                   result |-> d2.result, logged |-> l.logged \o d2.warn]
         ELSE [pc |-> "clear", phase |-> "open", command |-> OpenQuickfixWindowCommand,
               returned |-> NoReturn, output |-> <<>>, seen |-> NoSeen, raised |-> <<>>]

\* NvimClient.ExecuteCommand(cmd) is entered: validation, before any channel call.
ClientEnter(l, cmd) ==
    IF IsBlankCommand(cmd)
    THEN ClientReturn(l, [ok |-> FALSE, text |-> ValidationMsg], <<>>) @@ [command |-> cmd]
    ELSE [pc |-> "clear", command |-> cmd]

\* A channel call can be answered only while the editor listens on the socket.
Answers(ok) == ok => socketPath \in fs

\* remoteExpr running the process a second time when the first run failed.
IssuedWithRetry(p, expr, ok) ==
    [sent |-> Append(sent[p], Call(expr, ok))
              \o (IF ok THEN <<>> ELSE <<Call(expr, FALSE)>>)]

\* remoteExpr has run its process once: the call joins the request's log.
Issued(p, expr, ok) == [sent |-> Append(sent[p], Call(expr, ok))]

\* ------------------------------------------------------------- handlers
\* A handler that drops the error of ensureConnection and goes on.
BeginUnconnected(p, o, bindOk, l) ==
    /\ pc[p] = "idle"
    /\ socketPath' = ensureConnection(socketPath, env, fs)
    /\ IF ~bindOk
       THEN Commit(p, [op |-> o, pc |-> "done", result |-> ErrText(BindMsg)])
       ELSE Commit(p, l @@ [op |-> o])
    /\ UNCHANGED <<worldVars, sessionVars>>

\* Every handler begins with ensureConnection and BindArguments; l is what
\* it goes on with when both succeed.
Begin(p, o, bindOk, l) ==
    /\ pc[p] = "idle"
    /\ socketPath' = ensureConnection(socketPath, env, fs)
    /\ IF socketPath' = <<>>
       THEN Commit(p, [op |-> o, pc |-> "done", result |-> ErrText(NotFoundMsg)])
       ELSE IF ~bindOk
       THEN Commit(p, [op |-> o, pc |-> "done", result |-> ErrText(BindMsg)])
       ELSE Commit(p, l @@ [op |-> o])
    /\ UNCHANGED <<worldVars, sessionVars>>

ExecuteCommand(p, cmds) ==
    \E bindOk \in BOOLEAN, cmd \in cmds :
        Begin(p, "ExecuteCommand", bindOk,
              ClientEnter([Idle EXCEPT !.op = "ExecuteCommand"], cmd))

PopulateQuickfix(p, lists) ==
    \E bindOk \in BOOLEAN, its \in lists :
        Begin(p, "PopulateQuickfix", bindOk,
              ClientEnter([Idle EXCEPT !.op = "PopulateQuickfix", !.phase = "set", !.items = its],
                          SetQuickfixListCommand(its))
              @@ [phase |-> "set", items |-> its])

\* ExecuteCommand, first channel call: clear v:errmsg.
ClearStep(p) ==
    /\ pc[p] = "clear"
    /\ \E ok \in BOOLEAN :
        /\ Answers(ok)
        /\ IF ok
           THEN /\ errmsg' = <<>>
                /\ errBy' = "none"
                /\ Commit(p, [pc |-> "exec"] @@ Issued(p, ClearExpr, ok))
           ELSE /\ UNCHANGED sessionVars
                /\ Commit(p, ClientReturn(Cur(p), ClearFailed(remoteExpr(FALSE, <<>>)), <<>>)
                             @@ Issued(p, ClearExpr, ok))
    /\ UNCHANGED <<worldVars, socketPath>>

\* ExecuteCommand, second channel call: run the command, capture its output.
\* The command may set v:errmsg, also when the call itself reports failure.
ExecStep(p) ==
    /\ pc[p] = "exec"
    /\ \E ok \in BOOLEAN, so \in Stdouts, e \in ErrVals \cup {<<>>} :
        /\ Answers(ok)
        /\ IF e # <<>> /\ socketPath \in fs
           THEN errmsg' = e /\ errBy' = p
           ELSE UNCHANGED sessionVars
        /\ LET expr == ExecExpr(NormalizeCommand(command[p]))
               wrote == [raised |-> IF socketPath \in fs THEN e ELSE <<>>] IN
           IF ok
           THEN Commit(p, [pc |-> "check", output |-> remoteExpr(TRUE, so).text]
                          @@ wrote @@ Issued(p, expr, ok))
           ELSE Commit(p, ClientReturn(Cur(p), ExecFailed(remoteExpr(FALSE, so)), <<>>)
                          @@ wrote @@ Issued(p, expr, ok))
    /\ UNCHANGED <<worldVars, socketPath>>

\* ExecuteCommand, third channel call: read v:errmsg, then decide.
CheckStep(p) ==
    /\ pc[p] = "check"
    /\ \E ok \in BOOLEAN :
        /\ Answers(ok)
        /\ Commit(p, ClientReturn(Cur(p),
                                  CheckOutcome(remoteExpr(ok, errmsg \o <<"\n">>),
                                               output[p], command[p]),
                                  output[p])
                     @@ [seen |-> IF ok THEN [read |-> TRUE, raw |-> errmsg, by |-> errBy]
                                  ELSE NoSeen]
                     @@ Issued(p, ReadErrExpr, ok))
    /\ UNCHANGED <<worldVars, sessionVars, socketPath>>

\* ----------------------------------------------------- context extractor
\* mode() gives the first character of the editor's mode.
\* The character 0x16 (Ctrl-V).
CtrlV == "^V"
Modes == {<<"n">>, <<"i">>, <<"v">>, <<"V">>, <<CtrlV>>, <<"s">>}
FilePaths == {<<"/w/f.go">>}
Cursors == {<<"3:7">>}
VisualRanges == {<<"3:7 to 5:1">>}
\* What the Lua source "\\n" denotes once the expression reaches Lua: the Go
\* raw string and the single-quoted literal of the expression language both
\* pass \\n on as written, and Lua reads \\ as one backslash.
LuaSep == <<"\\", "n">>

\* The buffer of the session, and the ends of a visual selection
\* (getpos('v'), getpos('.')) as <<line, column>>.
BufferLines == [i \in 1..MaxLines |-> IF i = 1 THEN <<" ", "l1">> ELSE <<"l" \o ToString(i)>>]
Positions == (1..MaxLines) \X (1..MaxCol)
Selections ==
    {[NoHeld EXCEPT !.buffer = BufferLines, !.anchor = a, !.cursor = c] :
        a \in Positions, c \in Positions}
ConcSelections ==
    {[NoHeld EXCEPT !.buffer = BufferLines, !.anchor = <<2, 1>>, !.cursor = <<1, 2>>]}

\* The Lua function of the selected-text expression: the ends are put in
\* order, nvim_buf_get_lines(0, start_line - 1, end_line, false) gives the
\* lines start_line..end_line, table.concat joins them.
LuaSelectedText(buf, a, c) ==
    LET swap == a[1] > c[1] \/ (a[1] = c[1] /\ a[2] > c[2])
        start_line == IF swap THEN c[1] ELSE a[1]
        end_line == IF swap THEN a[1] ELSE c[1]
    IN  Join(SubSeq(buf, start_line, end_line), LuaSep)

\* What the session prints for the selected-text expression.
SelectedTexts(sels) ==
    {[held |-> h, stdout |-> LuaSelectedText(h.buffer, h.anchor, h.cursor)] : h \in sels}
\* What the session prints for an expression that reads one value.
Plain(values) == {[held |-> NoHeld, stdout |-> v] : v \in values}
CurrentLines == {<<"l3">>, <<" ", "l3", " ">>}

\* GetBufferContext, the branch on the mode, testing for "v" alone.
IsVisualModeLower(m) == HasPrefix(m, <<"v">>)

\* GetBufferContext, the branch on the mode.
IsVisualMode(m) == HasPrefix(m, <<"v">>) \/ HasPrefix(m, <<"V">>) \/ m = <<CtrlV>>

CtxFailure(what) ==
    ErrText(<<"failed to get buffer context: ">> \o <<what>> \o ChannelErr)

\* A read expression that goes through execute() and so resets v:errmsg.
ReadResetsErrorState == errmsg' = <<>> /\ errBy' = "none"

\* What evaluating one of the read expressions (expand, printf of line/col
\* or getpos, mode, getline, the two luaeval functions) does to v:errmsg.
ReadEffect == UNCHANGED sessionVars

GetBufferContext(p) ==
    \E bindOk \in BOOLEAN :
        Begin(p, "GetBufferContext", bindOk, [pc |-> "path"])

\* One remoteExpr call of GetBufferContext that drops the error of a failed
\* call and goes on with what was built so far.
ContextCallKeepGoing(p, at, expr, label, values, what, next) ==
    /\ pc[p] = at
    /\ \E ok \in BOOLEAN, v \in values :
        /\ Answers(ok)
        /\ LET got == IF ok THEN remoteExpr(TRUE, v.stdout \o <<"\n">>).text ELSE <<>>
               built == IF ok THEN output[p] \o <<label>> \o got \o <<"\n">> ELSE output[p]
               to == IF at = "mode"
                     THEN (IF IsVisualMode(got) THEN "vrange" ELSE "curline")
                     ELSE next
           IN  Commit(p, (IF at = "mode" THEN [mode |-> got] ELSE <<>>)
                         @@ (IF to = "done" THEN [result |-> OkText(built)] ELSE <<>>)
                         @@ [pc |-> to, output |-> built, held |-> v.held]
                         @@ Issued(p, <<expr>>, ok))
    /\ ReadEffect
    /\ UNCHANGED <<worldVars, socketPath>>

\* One remoteExpr call of GetBufferContext and the WriteString after it.
ContextCall(p, at, expr, label, values, what, next) ==
    /\ pc[p] = at
    /\ \E ok \in BOOLEAN, v \in values :
        /\ Answers(ok)
        /\ IF ok
           THEN LET got == remoteExpr(TRUE, v.stdout \o <<"\n">>).text
                    built == output[p] \o <<label>> \o got \o <<"\n">>
                    to == IF at = "mode"
                          THEN (IF IsVisualMode(got) THEN "vrange" ELSE "curline")
                          ELSE next
                IN  Commit(p, (IF at = "mode" THEN [mode |-> got] ELSE <<>>)
                              @@ (IF to = "done" THEN [result |-> OkText(built)] ELSE <<>>)
                              @@ [pc |-> to, output |-> built, held |-> v.held]
                              @@ Issued(p, <<expr>>, ok))
           ELSE Commit(p, [pc |-> "done", output |-> <<>>, result |-> CtxFailure(what)]
                          @@ Issued(p, <<expr>>, ok))
    /\ ReadEffect
    /\ UNCHANGED <<worldVars, socketPath>>

FilePathStep(p) ==
    ContextCall(p, "path", "expand('%:p')", "FILE_PATH:", Plain(FilePaths),
                "failed to get file path: ", "cursor")
CursorStep(p) ==
    ContextCall(p, "cursor", "printf('%d:%d', line('.'), col('.'))", "CURSOR:", Plain(Cursors),
                "failed to get cursor position: ", "mode")
ModeStep(p) ==
    ContextCall(p, "mode", "mode()", "MODE:", Plain(Modes), "failed to get mode: ", "branch")
VisualRangeStep(p) ==
    ContextCall(p, "vrange", "printf('%d:%d to %d:%d', getpos('v')..., getpos('.')...)",
                "VISUAL_SELECTION:", Plain(VisualRanges), "failed to get visual range: ", "seltext")
SelectedTextStep(p, sels) ==
    ContextCall(p, "seltext", "luaeval('selected text')", "SELECTED_TEXT:", SelectedTexts(sels),
                "failed to get selected text: ", "done")
CurrentLineStep(p) ==
    ContextCall(p, "curline", "getline('.')", "CURRENT_LINE:", Plain(CurrentLines),
                "failed to get current line: ", "done")

\* ---------------------------------------------------- diagnostics reader
\* The issue list of the session: vim.diagnostic.get(0), 0-based positions.
DiagRecords ==
    {[lnum |-> 0, col |-> 0, severity |-> 1, message |-> <<"m">>],
     [lnum |-> 4, col |-> 2, severity |-> 2, message |-> <<>>],
     [lnum |-> 1, col |-> 0, severity |-> 4, message |-> <<"h", ":", "x">>],
     [lnum |-> 9, col |-> 1, severity |-> 7, message |-> <<"u">>]}
DiagLists == StrUpTo(DiagRecords, MaxDiags)
ConcDiagLists == {<<>>, <<[lnum |-> 0, col |-> 0, severity |-> 1, message |-> <<"m">>]>>}

\* severity_map[diag.severity] or "UNKNOWN"
severity_map == <<"ERROR", "WARN", "INFO", "HINT">>
severity(diag) ==
    IF diag.severity \in 1..Len(severity_map) THEN severity_map[diag.severity] ELSE "UNKNOWN"

\* The Lua function of the diagnostics expression without its first branch.
LuaDiagnosticsNoSentinel(diagnostics) ==
    Join([i \in 1..Len(diagnostics) |->
            <<"DIAGNOSTIC:", ToString(diagnostics[i].lnum + 1), ":",
              ToString(diagnostics[i].col + 1), ":", severity(diagnostics[i]), ":">>
            \o diagnostics[i].message],
         LuaSep)

\* The Lua function of the diagnostics expression.
LuaDiagnostics(diagnostics) ==
    IF Len(diagnostics) = 0 THEN <<"NO_DIAGNOSTICS">>
    ELSE Join([i \in 1..Len(diagnostics) |->
                 <<"DIAGNOSTIC:", ToString(diagnostics[i].lnum + 1), ":",
                   ToString(diagnostics[i].col + 1), ":", severity(diagnostics[i]), ":">>
                 \o diagnostics[i].message],
              LuaSep)

GetDiagnostics(p) ==
    \E bindOk \in BOOLEAN :
        Begin(p, "GetDiagnostics", bindOk, [pc |-> "diag"])

DiagnosticsStep(p, lists) ==
    /\ pc[p] = "diag"
    /\ \E ok \in BOOLEAN, ds \in lists :
        /\ Answers(ok)
        /\ LET r == remoteExpr(ok, LuaDiagnostics(ds) \o <<"\n">>) IN
           Commit(p, [pc |-> "done",
                      held |-> IF ok THEN [NoHeld EXCEPT !.diagnostics = ds] ELSE NoHeld,
                      output |-> IF ok THEN r.text ELSE <<>>,
                      result |-> IF ok THEN OkText(r.text)
                                 ELSE ErrText(<<"failed to get diagnostics: ",
                                                "failed to get diagnostics: ">> \o r.text)]
                     @@ Issued(p, <<"luaeval('diagnostics')">>, ok))
    /\ ReadEffect
    /\ UNCHANGED <<worldVars, socketPath>>

\* --------------------------------------------------- dispatcher and world
workerVars == <<op, pc, phase, command, items, output, mode, seen, sent, logged,
                returned, result, raised, held, blocked, cancelled>>

\* The handler's result goes back to the agent; the worker is free again.
Return(p) ==
    /\ pc[p] = "done"
    /\ Commit(p, Idle)
    /\ errBy' = IF errBy = p THEN "stale" ELSE errBy
    /\ UNCHANGED <<worldVars, socketPath, errmsg>>

\* An editor starts listening on a socket, with a clean v:errmsg ...
EditorStarts ==
    \E f \in SocketsOf(env) \ fs :
        /\ fs' = fs \cup {f}
        /\ UNCHANGED <<env, socketPath, sessionVars, workerVars, keyVars>>

\* ... or quits, and its socket and its state are gone.
EditorQuits ==
    \E f \in fs :
        /\ fs' = fs \ {f}
        /\ IF socketPath \in {<<>>, f}
           THEN /\ errmsg' = <<>> /\ errBy' = "none"
                /\ raised' = [p \in Workers |-> <<>>]
           ELSE UNCHANGED <<sessionVars, raised>>
        /\ UNCHANGED <<env, socketPath, op, pc, phase, command, items, output, mode,
                       seen, sent, logged, returned, result, held, blocked, cancelled,
                       sendLog>>
        /\ IF socketPath \in {<<>>, f}
           THEN /\ editorMode' = "n" /\ cmdline' = <<>> /\ typeahead' = <<>>
                /\ startedIn' = "n"
           ELSE UNCHANGED <<editorMode, cmdline, typeahead, startedIn>>

\* No send-keystrokes call has been made yet.
NoSend == [cmd |-> <<>>, keys |-> <<>>, stderr |-> <<>>, result |-> NoResult]

\* NewNvimToolbox: the client holds what findNvimSocket found, or "".
Started(e) ==
    /\ env = e
    /\ fs \in SUBSET SocketsOf(e)
    /\ socketPath = findNvimSocket(env, fs)
    /\ errmsg \in {<<>>} \cup ErrVals
    /\ errBy = IF errmsg = <<>> THEN "none" ELSE "stale"
    /\ op = [p \in Workers |-> Idle.op]
    /\ pc = [p \in Workers |-> Idle.pc]
    /\ phase = [p \in Workers |-> Idle.phase]
    /\ command = [p \in Workers |-> Idle.command]
    /\ items = [p \in Workers |-> Idle.items]
    /\ output = [p \in Workers |-> Idle.output]
    /\ mode = [p \in Workers |-> Idle.mode]
    /\ seen = [p \in Workers |-> Idle.seen]
    /\ sent = [p \in Workers |-> Idle.sent]
    /\ logged = [p \in Workers |-> Idle.logged]
    /\ returned = [p \in Workers |-> Idle.returned]
    /\ result = [p \in Workers |-> Idle.result]
    /\ raised = [p \in Workers |-> Idle.raised]
    /\ held = [p \in Workers |-> Idle.held]
    /\ blocked = {}
    /\ cancelled = {}
    /\ editorMode = "n"
    /\ cmdline = <<>>
    /\ typeahead = <<>>
    /\ sendLog = NoSend
    /\ startedIn = "n"

\* The process is started in the default environment ...
Init == Started(DefaultEnv)
\* ... or in any of the environments.
InitLoc == \E e \in Envs : Started(e)

\* Positions at which the worker is about to run remoteExpr.
CallPositions ==
    {"clear", "exec", "check", "path", "cursor", "mode", "vrange", "seltext",
     "curline", "diag"}

\* remoteExpr, cmd.Run: the nvim process connects to a session that never
\* answers, so it never exits; exec.Command sets no deadline and nothing
\* kills the process, so Run never returns to the worker.
NoAnswer(p) ==
    /\ pc[p] \in CallPositions
    /\ socketPath \in fs
    /\ blocked' = blocked \cup {p}
    /\ UNCHANGED <<worldVars, sessionVars, socketPath, op, pc, phase, command, items,
                   output, mode, seen, sent, logged, returned, result, raised, held,
                   cancelled>>

\* What a worker that is not stuck in cmd.Run does next.
Steps(p) ==
    /\ p \notin blocked
    /\ \/ ClearStep(p) \/ ExecStep(p) \/ CheckStep(p)
       \/ FilePathStep(p) \/ CursorStep(p) \/ ModeStep(p)
       \/ VisualRangeStep(p) \/ CurrentLineStep(p)
       \/ NoAnswer(p)
       \/ Return(p)

\* The two calls whose answer is computed from what the session holds.
Reads(p, sels, lists) ==
    /\ p \notin blocked
    /\ (SelectedTextStep(p, sels) \/ DiagnosticsStep(p, lists))

\* The dispatcher serves requests as they come, overlapping.
Next ==
    \/ \E p \in Workers :
        \/ ExecuteCommand(p, ConcCmds) \/ PopulateQuickfix(p, ConcItemLists)
        \/ GetBufferContext(p) \/ GetDiagnostics(p)
        \/ Steps(p) \/ Reads(p, ConcSelections, ConcDiagLists)
    \/ EditorStarts \/ EditorQuits

Spec == Init /\ [][Next]_vars

\* The dispatcher serves one request at a time.
NoneInFlight == \A q \in Workers : pc[q] = "idle"

NextSeq ==
    \/ \E p \in Workers :
        \/ NoneInFlight /\ ExecuteCommand(p, SeqCmds)
        \/ NoneInFlight /\ PopulateQuickfix(p, SeqItemLists)
        \/ NoneInFlight /\ GetBufferContext(p)
        \/ NoneInFlight /\ GetDiagnostics(p)
        \/ Steps(p) \/ Reads(p, Selections, DiagLists)
    \/ EditorStarts \/ EditorQuits

SpecSeq == Init /\ [][NextSeq]_vars

\* One request at a time, the process started in any environment.
SpecLoc == InitLoc /\ [][NextSeq]_vars

\* The caller cancels a request it is waiting for: the ctx handed to the
\* handler is cancelled.  No handler reads its ctx and remoteExpr builds its
\* process with exec.Command, so nothing else changes.
Cancel(p) ==
    /\ pc[p] # "idle"
    /\ p \notin cancelled
    /\ cancelled' = cancelled \cup {p}
    /\ UNCHANGED <<worldVars, sessionVars, socketPath, op, pc, phase, command, items,
                   output, mode, seen, sent, logged, returned, result, raised, held,
                   blocked>>

\* One request at a time, which the caller may cancel.
NextCancel == NextSeq \/ \E p \in Workers : Cancel(p)

SpecCancel == Init /\ [][NextCancel]_vars

\* ------------------------------------------- the send-keystrokes variant
\* Pending sends the editor's typeahead is let to hold.
MaxPending == 2
\* Command texts sent as keys; the key notation in them is read as keys.
SendCmds == {<<>>, <<"a">>, <<":", "a">>, <<"a", "<Esc>">>, <<"<CR>", "a">>}
\* What nvim writes to standard error when it exits nonzero.
Stderrs == {<<>>, <<"E247">>}
EditorModes == {"n", "i", "v", "t", "c"}

\* escapeSequence without the <C-\><C-n> key.
escapeSequenceEscOnly == <<"<Esc>", "<Esc>", ":">>

\* escapeSequence := `<C-\><C-n><Esc><Esc>:`
escapeSequence == <<"<C-\\><C-n>", "<Esc>", "<Esc>", ":">>

\* remoteCmd := fmt.Sprintf("%s%s<CR>", escapeSequence, command)
remoteCmd(cmd) == escapeSequence \o cmd \o <<"<CR>">>

\* The keys of one send as the editor receives them: each key with its
\* place in the send (the prefix, the command text, the closing <CR>).
Keyed(cmd) ==
    LET keys == remoteCmd(cmd)
        n == Len(escapeSequence)
    IN  [i \in 1..Len(keys) |->
            [key |-> keys[i],
             part |-> IF i <= n THEN "prefix"
                      ELSE IF i = Len(keys) THEN "end" ELSE "text",
             opens |-> i = 1,
             first |-> i = n + 1]]

\* What one key does to the editor: <C-\><C-n> leaves any mode for normal
\* mode; <Esc> leaves insert, visual and command-line mode and is passed to
\* the job in terminal mode; ':' opens the command line from normal and
\* from visual mode; <CR> ends the command line; other keys are typed into
\* the command line, the buffer or the job, and 'a' starts insert mode.
EditorKey(m, cl, key) ==
    IF key = "<C-\\><C-n>" THEN [mode |-> "n", cmdline |-> <<>>]
    ELSE IF key = "<Esc>"
    THEN (IF m = "t" THEN [mode |-> m, cmdline |-> cl] ELSE [mode |-> "n", cmdline |-> <<>>])
    ELSE IF m = "c"
    THEN (IF key = "<CR>" THEN [mode |-> "n", cmdline |-> <<>>]
          ELSE [mode |-> "c", cmdline |-> Append(cl, key)])
    ELSE IF key = ":" /\ m = "n" THEN [mode |-> "c", cmdline |-> <<>>]
    ELSE IF key = ":" /\ m = "v" THEN [mode |-> "c", cmdline |-> <<"'<,'>">>]
    ELSE IF key = "a" /\ m = "n" THEN [mode |-> "i", cmdline |-> <<>>]
    ELSE [mode |-> m, cmdline |-> cl]

Pending == Cardinality({i \in 1..Len(typeahead) : typeahead[i].part = "end"})

\* The handler and NvimClient.ExecuteCommand of the send-keystrokes variant:
\* nvim --server <socketPath> --remote-send <remoteCmd>, standard error
\* captured; on exit 0 the keys are in the editor's typeahead.
ExecuteCommandSend(cmds) ==
    \E bindOk \in BOOLEAN, cmd \in cmds, ok \in BOOLEAN, stderr \in Stderrs :
        /\ NoneInFlight
        /\ Pending < MaxPending
        /\ socketPath' = ensureConnection(socketPath, env, fs)
        /\ ok => socketPath' \in fs
        /\ IF socketPath' = <<>>
           THEN /\ sendLog' = [NoSend EXCEPT !.result = ErrText(NotFoundMsg)]
                /\ typeahead' = typeahead
           ELSE IF ~bindOk
           THEN /\ sendLog' = [NoSend EXCEPT !.result = ErrText(BindMsg)]
                /\ typeahead' = typeahead
           ELSE IF ok
           THEN /\ sendLog' = [cmd |-> cmd, keys |-> remoteCmd(cmd), stderr |-> <<>>,
                               result |-> OkText(<<"Successfully executed command: ">> \o cmd)]
                /\ typeahead' = typeahead \o Keyed(cmd)
           ELSE /\ sendLog' = [cmd |-> cmd, keys |-> remoteCmd(cmd), stderr |-> stderr,
                               result |-> ErrText(<<"failed to execute command: ",
                                                    "failed to execute command: ",
                                                    "exit status 1", ", stderr: ">> \o stderr)]
                /\ typeahead' = typeahead
        /\ UNCHANGED <<env, fs, sessionVars, workerVars, editorMode, cmdline, startedIn>>

\* The editor takes the next key of its typeahead.
EditorTakesKey ==
    /\ typeahead # <<>>
    /\ LET n == EditorKey(editorMode, cmdline, Head(typeahead).key) IN
        /\ editorMode' = n.mode
        /\ cmdline' = n.cmdline
    /\ typeahead' = Tail(typeahead)
    /\ startedIn' = IF Head(typeahead).opens THEN editorMode ELSE startedIn
    /\ UNCHANGED <<env, fs, socketPath, sessionVars, workerVars, sendLog>>

\* The user at the keyboard leaves the editor in some mode, in command-line
\* mode with or without text typed.  The keys of a send arrive in one piece
\* and are taken before later input.
UserChangesMode ==
    /\ typeahead = <<>>
    /\ \E m \in EditorModes, cl \in {<<>>, <<"x">>} :
        /\ cl # <<>> => m = "c"
        /\ editorMode' = m
        /\ cmdline' = cl
    /\ UNCHANGED <<env, fs, socketPath, sessionVars, workerVars, typeahead, sendLog,
                   startedIn>>

NextSend ==
    \/ ExecuteCommandSend(SendCmds)
    \/ EditorTakesKey
    \/ UserChangesMode
    \/ EditorStarts \/ EditorQuits

\* The send-keystrokes variant, one request at a time.
SpecSend == Init /\ [][NextSend]_vars

\* ================================================================ claims
IsRemoteError(r) == ~r.ok /\ r.text # <<>> /\ Head(r.text) = "vim error: "
IsValidationError(r) == ~r.ok /\ r.text = <<"command cannot be empty">>
IsChannelFailure(r) == ~r.ok /\ "failed to execute expression: " \in Range(r.text)
AllBlank(s) == \A i \in 1..Len(s) : s[i] \in {" ", "\t", "\n", "\r"}
RECURSIVE Stripped(_)
Stripped(s) ==
    IF s = <<>> THEN s
    ELSE IF AllBlank(<<s[1]>>) THEN Stripped(Tail(s))
    ELSE IF AllBlank(<<s[Len(s)]>>) THEN Stripped(SubSeq(s, 1, Len(s) - 1))
    ELSE s

\* C1: with requests served one at a time, a call whose check step read the
\* error state returns RemoteError exactly when the value read is non-empty
\* after trimming; the error carries that value, and the value was written by
\* this call's own command, never left behind by an earlier one.  Without a
\* check step that read the error state no RemoteError is returned.
C1_RemoteErrorIffErrorState ==
    \A p \in Workers :
        /\ seen[p].read =>
            /\ IsRemoteError(returned[p]) <=> Stripped(seen[p].raw) # <<>>
            /\ IsRemoteError(returned[p]) =>
                /\ returned[p].text = <<"vim error: ">> \o Stripped(seen[p].raw)
                /\ seen[p].by = p
        /\ IsRemoteError(returned[p]) => seen[p].read

\* C1 witness: a call whose check step read the error state returned
\* RemoteError and its handler reported the error.
C1_Witness ==
    \E p \in Workers :
        /\ op[p] = "ExecuteCommand" /\ pc[p] = "done"
        /\ seen[p].read /\ IsRemoteError(returned[p]) /\ result[p].isError

\* C2: no two ExecuteCommand invocations are between their clear step and
\* their check step at the same time.
InTransaction(p) == pc[p] \in {"exec", "check"}

C2_TransactionsExclusive ==
    \A p, q \in Workers : p # q => ~(InTransaction(p) /\ InTransaction(q))

\* C3: an executeCommand in which a channel call exited nonzero returns a
\* failure, never a success result.
C3_ChannelFailureFails ==
    \A p \in Workers :
        (/\ op[p] = "ExecuteCommand" /\ pc[p] = "done"
         /\ \E i \in 1..Len(sent[p]) : ~sent[p][i].ok)
        => (~returned[p].ok /\ result[p].isError)

\* C4: an executeCommand whose command text is empty or all whitespace has
\* failed with ValidationError and has issued no channel call.
C4_BlankCommandRejected ==
    \A p \in Workers :
        (op[p] = "ExecuteCommand" /\ command[p] # NoArg /\ AllBlank(command[p]))
        => /\ pc[p] = "done"
           /\ IsValidationError(returned[p])
           /\ result[p].isError
           /\ sent[p] = <<>>

\* C4 witness: a whitespace-only command was rejected.
C4_Witness ==
    \E p \in Workers :
        /\ op[p] = "ExecuteCommand" /\ pc[p] = "done"
        /\ command[p] = <<" ", "\t">> /\ IsValidationError(returned[p])

\* The target syntax's reading of a single-quoted literal: s is the text after
\* the opening quote; a doubled quote stands for one quote, a single one closes.
\* The reader is a three-state scanner ("open": inside the literal, "quote":
\* just past a quote that closes the literal unless another follows, "closed"),
\* run over the two halves of s in turn to keep the evaluation shallow.
RECURSIVE Scan(_, _)
Scan(s, st) ==
    IF s = <<>> THEN [st |-> st, val |-> <<>>, rest |-> <<>>]
    ELSE IF st = "closed" THEN [st |-> "closed", val |-> <<>>, rest |-> s]
    ELSE IF Len(s) = 1
    THEN IF s[1] = "'"
         THEN IF st = "open"
              THEN [st |-> "quote", val |-> <<>>, rest |-> <<>>]
              ELSE [st |-> "open", val |-> <<"'">>, rest |-> <<>>]
         ELSE IF st = "open"
              THEN [st |-> "open", val |-> s, rest |-> <<>>]
              ELSE [st |-> "closed", val |-> <<>>, rest |-> s]
    ELSE LET h == Len(s) \div 2
             l == Scan(SubSeq(s, 1, h), st)
             r == Scan(SubSeq(s, h + 1, Len(s)), l.st)
         IN  [st |-> r.st, val |-> l.val \o r.val, rest |-> l.rest \o r.rest]

UnquoteFrom(s) ==
    LET r == Scan(s, "open") IN [ok |-> r.st # "open", val |-> r.val, rest |-> r.rest]

\* The command text an execute('...') expression makes the session run.
DecodeExecute(expr) ==
    IF Len(expr) >= 3 /\ SubSeq(expr, 1, 3) = <<"execute", "(", "'">>
    THEN LET u == UnquoteFrom(SubSeq(expr, 4, Len(expr)))
         IN  [ok |-> u.ok /\ u.rest = <<")">>, val |-> u.val]
    ELSE [ok |-> FALSE, val |-> <<>>]

Rest(s) == SubSeq(s, 2, Len(s))
StartsWithColon(s) == s # <<>> /\ s[1] = ":"
ExecIssued(p) == op[p] = "ExecuteCommand" /\ Len(sent[p]) >= 2
NoExpr == <<"<nothing transmitted>">>
\* The execute expression executeCommand(t) transmits, NoExpr when it rejects t.
TransmitOf(t) == IF IsBlankCommand(t) THEN NoExpr ELSE ExecExpr(NormalizeCommand(t))

\* C5 as stated: for every t not starting with a colon, executeCommand(":" + t)
\* transmits what executeCommand(t) transmits.
C5_ColonAndBareTransmitSame ==
    \A p \in Workers :
        (ExecIssued(p) /\ StartsWithColon(command[p]) /\ ~StartsWithColon(Rest(command[p])))
        => sent[p][2].expr = TransmitOf(Rest(command[p]))

\* C5 amended: the execute expression embeds the command text less exactly one
\* leading colon (the text itself when it has none; a second colon stays), and
\* for every t that is not blank and does not start with a colon,
\* executeCommand(":" + t) transmits what executeCommand(t) transmits.
C5_StripsOneColon ==
    \A p \in Workers :
        ExecIssued(p) =>
            LET raw == command[p]
                d == DecodeExecute(sent[p][2].expr)
            IN  /\ d.ok
                /\ d.val = IF StartsWithColon(raw) THEN Rest(raw) ELSE raw
                /\ (StartsWithColon(raw) /\ ~StartsWithColon(Rest(raw)) /\ ~AllBlank(Rest(raw)))
                   => sent[p][2].expr = TransmitOf(Rest(raw))

\* C5 witness: a command with two leading colons was transmitted with one left.
C5_Witness ==
    \E p \in Workers :
        /\ ExecIssued(p) /\ command[p] = <<":", ":">>
        /\ DecodeExecute(sent[p][2].expr).val = <<":">>

\* C6: a successful executeCommand returns a non-empty text: the synthesized
\* message ending in the original command text when the captured output is
\* empty after trimming, the captured output itself otherwise; the handler
\* passes it on as its result.
C6_SuccessNeverEmpty ==
    \A p \in Workers :
        (returned[p] # NoReturn /\ returned[p].ok) =>
            /\ returned[p].text # <<>>
            /\ IF Stripped(output[p]) = <<>>
               THEN returned[p].text = <<"Command executed successfully: ">> \o command[p]
               ELSE returned[p].text = output[p]
            /\ (op[p] = "ExecuteCommand" /\ pc[p] = "done")
               => result[p] = [isError |-> FALSE, text |-> returned[p].text]

\* C6 witness: a command with a leading colon and no output succeeded.
C6_Witness ==
    \E p \in Workers :
        /\ op[p] = "ExecuteCommand" /\ pc[p] = "done"
        /\ returned[p].ok /\ output[p] = <<>> /\ command[p] = <<":", "a">>
        /\ Len(sent[p]) = 3 /\ sent[p][3].ok

\* C7: PopulateQuickfix issues the set command before the open command; when
\* the set command failed the handler has failed with that error and no open
\* command was issued; once the set command succeeded the handler succeeds
\* whatever the open command returns, a failure of it being logged as a warning.
SetExpr(p) == <<"execute", "(", "'">> \o escapeVimString(SetQuickfixListCommand(items[p])) \o <<"'", ")">>
OpenExpr == <<"execute", "(", "'", "copen", "'", ")">>
Exprs(p) == {sent[p][i].expr : i \in 1..Len(sent[p])}

Numerals == {ToString(n) : n \in -9..99}
ParseFail == [ok |-> FALSE, val |-> <<>>, rest |-> <<>>]
From(s, i) == SubSeq(s, i, Len(s))

ParseValue(s) ==
    IF s # <<>> /\ Head(s) = "'"
    THEN LET u == UnquoteFrom(Tail(s))
         IN  [ok |-> u.ok, kind |-> "string", val |-> u.val, rest |-> u.rest]
    ELSE IF s # <<>> /\ Head(s) \in Numerals
    THEN [ok |-> TRUE, kind |-> "number", val |-> <<Head(s)>>, rest |-> Tail(s)]
    ELSE [ok |-> FALSE, kind |-> "", val |-> <<>>, rest |-> <<>>]

RECURSIVE ParsePairs(_, _)
ParsePairs(s, acc) ==
    LET k == ParseValue(s) IN
    IF ~k.ok \/ k.kind # "string" \/ ~HasPrefix(k.rest, <<":", " ">>) THEN ParseFail
    ELSE LET v == ParseValue(From(k.rest, 3)) IN
         IF ~v.ok THEN ParseFail
         ELSE LET more == Append(acc, [key |-> k.val, kind |-> v.kind, val |-> v.val]) IN
              IF HasPrefix(v.rest, <<",", " ">>) THEN ParsePairs(From(v.rest, 3), more)
              ELSE IF HasPrefix(v.rest, <<"}">>)
              THEN [ok |-> TRUE, val |-> more, rest |-> Tail(v.rest)]
              ELSE ParseFail

RECURSIVE ParseDicts(_, _)
ParseDicts(s, acc) ==
    IF ~HasPrefix(s, <<"{">>) THEN ParseFail
    ELSE LET d == ParsePairs(Tail(s), <<>>) IN
         IF ~d.ok THEN ParseFail
         ELSE IF HasPrefix(d.rest, <<",", " ">>)
         THEN ParseDicts(From(d.rest, 3), Append(acc, d.val))
         ELSE IF HasPrefix(d.rest, <<"]">>)
         THEN [ok |-> TRUE, val |-> Append(acc, d.val), rest |-> Tail(d.rest)]
         ELSE ParseFail

ParseList(s) ==
    IF s = <<"[", "]">> THEN [ok |-> TRUE, val |-> <<>>]
    ELSE IF HasPrefix(s, <<"[">>)
    THEN LET r == ParseDicts(Tail(s), <<>>) IN [ok |-> r.ok /\ r.rest = <<>>, val |-> r.val]
    ELSE [ok |-> FALSE, val |-> <<>>]

\* The list literal the session is handed by a PopulateQuickfix whose set
\* command was issued: the argument of setqflist( ) inside execute(' ').
SetIssued(p) == op[p] = "PopulateQuickfix" /\ Len(sent[p]) >= 2
ListSent(p) ==
    LET c == DecodeExecute(sent[p][2].expr) IN
    IF c.ok /\ Len(c.val) >= 3 /\ SubSeq(c.val, 1, 2) = <<"call setqflist", "(">>
            /\ c.val[Len(c.val)] = ")"
    THEN ParseList(SubSeq(c.val, 3, Len(c.val) - 1))
    ELSE [ok |-> FALSE, val |-> <<>>]

KeysOf(dict) == [i \in 1..Len(dict) |-> dict[i].key]
ExpectedKeys(item) ==
    << <<"filename">>, <<"lnum">> >>
    \o (IF item.Column > 0 THEN << <<"col">> >> ELSE <<>>)
    \o << <<"text">> >>
    \o (IF item.Type # <<>> THEN << <<"type">> >> ELSE <<>>)

\* C8: the list literal holds exactly one dictionary per item, in input order,
\* each with the keys filename, lnum, col, text, type in that order, col
\* present exactly when the column is > 0 and type exactly when the type is
\* non-empty.
C8_OneDictionaryPerItem ==
    \A p \in Workers :
        SetIssued(p) =>
            LET l == ListSent(p) IN
            /\ l.ok
            /\ Len(l.val) = Len(items[p])
            /\ \A i \in 1..Len(items[p]) : KeysOf(l.val[i]) = ExpectedKeys(items[p][i])

ValueOf(dict, k) == {dict[i].val : i \in {j \in 1..Len(dict) : dict[j].key = <<k>>}}

\* C9: every string the program embeds in a single-quoted literal reads back
\* as the original value: the file name, text and type of each quickfix
\* dictionary, and the command text of each execute expression.
C9_LiteralsReadBack ==
    \A p \in Workers :
        /\ ExecIssued(p) =>
             LET c == DecodeExecute(sent[p][2].expr) IN
             c.ok /\ c.val = (IF StartsWithColon(command[p]) THEN Rest(command[p]) ELSE command[p])
        /\ SetIssued(p) =>
             LET l == ListSent(p) IN
             /\ l.ok
             /\ Len(l.val) = Len(items[p])
             /\ \A i \in 1..Len(items[p]) :
                  /\ ValueOf(l.val[i], "filename") = {items[p][i].Filename}
                  /\ ValueOf(l.val[i], "text") = {items[p][i].Text}
                  /\ items[p][i].Type # <<>> => ValueOf(l.val[i], "type") = {items[p][i].Type}

\* C10: a successful GetBufferContext output holds either VISUAL_SELECTION and
\* SELECTED_TEXT, when the mode it read (its MODE line) is v, V or Ctrl-V, or
\* CURRENT_LINE alone, for every other mode.
BranchLabels == {"VISUAL_SELECTION:", "SELECTED_TEXT:", "CURRENT_LINE:"}
VisualIndicators == {<<"v">>, <<"V">>, <<"^V">>}
ModeLine(text) == {i \in 1..Len(text) : text[i] = "MODE:"}

C10_OneBranchByMode ==
    \A p \in Workers :
        (op[p] = "GetBufferContext" /\ pc[p] = "done" /\ ~result[p].isError) =>
            LET text == result[p].text IN
            /\ Len(sent[p]) >= 3 /\ sent[p][3].expr = <<"mode()">>
            /\ \E i \in ModeLine(text) :
                 SubSeq(text, i + 1, i + Len(mode[p]) + 1) = mode[p] \o <<"\n">>
            /\ Range(text) \cap BranchLabels =
                 IF mode[p] \in VisualIndicators
                 THEN {"VISUAL_SELECTION:", "SELECTED_TEXT:"}
                 ELSE {"CURRENT_LINE:"}

\* C10 witness: the mode read was Ctrl-V and the output holds the selection.
C10_Witness ==
    \E p \in Workers :
        /\ op[p] = "GetBufferContext" /\ pc[p] = "done" /\ ~result[p].isError
        /\ mode[p] = <<"^V">>
        /\ "SELECTED_TEXT:" \in Range(result[p].text)

\* C11: a getDiagnostics whose channel call was answered succeeds, and its
\* text is exactly NO_DIAGNOSTICS if and only if the issue list the session
\* held had zero records; no getDiagnostics returns the sentinel as an error.
Sentinel == <<"NO_DIAGNOSTICS">>
DiagnosticsAnswered(p) ==
    /\ op[p] = "GetDiagnostics" /\ pc[p] = "done"
    /\ Len(sent[p]) = 1 /\ sent[p][1].ok

C11_SentinelIffNoRecords ==
    \A p \in Workers :
        /\ DiagnosticsAnswered(p) =>
             /\ ~result[p].isError
             /\ result[p].text = Sentinel <=> Len(held[p].diagnostics) = 0
        /\ (op[p] = "GetDiagnostics" /\ pc[p] = "done" /\ result[p].text = Sentinel)
             => (~result[p].isError /\ DiagnosticsAnswered(p))

\* C11 witness: the session held no record and the sentinel came back.
C11_Witness ==
    \E p \in Workers :
        /\ DiagnosticsAnswered(p) /\ held[p].diagnostics = <<>>
        /\ result[p] = [isError |-> FALSE, text |-> Sentinel]

\* C12: the client's socket path is set only by session location, at start
\* or by the first request after a start that found nothing, and location
\* gives the override path when the variable is set and the path exists,
\* otherwise <cache-root>/nvim/<basename(cwd)>.sock when that exists (cache
\* root from its override, else <home>/.cache), otherwise nothing; a path
\* it gives exists at that moment and is one of these two.
NotFound == <<>>
CacheRoot(e) == IF e.XDG_CACHE_HOME # <<>> THEN e.XDG_CACHE_HOME ELSE e.HOME \o <<".cache">>
CachePath(e) == CacheRoot(e) \o <<"nvim">> \o <<e.pwd[Len(e.pwd)] \o ".sock">>
ByPrecedence(e, files) ==
    IF e.NVIM # <<>> /\ e.NVIM \in files THEN e.NVIM
    ELSE IF ~e.pwdErr /\ CachePath(e) \in files THEN CachePath(e)
    ELSE NotFound
Located(path) ==
    /\ path = ByPrecedence(env, fs)
    /\ path # NotFound => (path \in fs /\ path \in {env.NVIM, CachePath(env)})

C12_LocationPrecedence ==
    /\ Located(socketPath)
    /\ [][\A p \in Workers :
            (pc[p] = "idle" /\ pc'[p] # "idle") =>
                /\ socketPath = NotFound => Located(socketPath')
                /\ result'[p] = ErrText(NotFoundMsg) <=> socketPath' = NotFound]_vars

\* C12 witness: both sockets exist and a request runs against the override.
C12_Witness ==
    \E p \in Workers :
        /\ pc[p] \notin {"idle", "done"}
        /\ env.NVIM # <<>> /\ socketPath = env.NVIM
        /\ {env.NVIM, CachePath(env)} \subseteq fs

\* C13 as stated: a process started where no session is discoverable holds
\* no socket path, and every request begun while no session is discoverable
\* ends at once with the SessionNotFound error result.
Begins(p) == pc[p] = "idle" /\ pc'[p] # "idle"
IsSessionNotFound(p) == pc'[p] = "done" /\ result'[p] = ErrText(NotFoundMsg) /\ sent'[p] = <<>>

C13_NoSessionNoOperation ==
    /\ ByPrecedence(env, fs) = NotFound => socketPath = NotFound
    /\ [][\A p \in Workers :
            (Begins(p) /\ ByPrecedence(env, fs) = NotFound) => IsSessionNotFound(p)]_vars

\* C13 amended: the same for every request begun while the client holds no
\* socket path; a request begun while the client holds a path found earlier
\* keeps that path without looking again and is not answered SessionNotFound.
C13_NotFoundWhileNoPathHeld ==
    /\ ByPrecedence(env, fs) = NotFound => socketPath = NotFound
    /\ [][\A p \in Workers :
            Begins(p) =>
                /\ (socketPath = NotFound /\ ByPrecedence(env, fs) = NotFound)
                   => (IsSessionNotFound(p) /\ socketPath' = NotFound)
                /\ socketPath # NotFound
                   => (socketPath' = socketPath /\ result'[p] # ErrText(NotFoundMsg))]_vars

\* C13 witness: with nothing to discover, getDiagnostics was answered
\* SessionNotFound without a channel call.
C13_Witness ==
    \E p \in Workers :
        /\ op[p] = "GetDiagnostics" /\ pc[p] = "done"
        /\ result[p] = ErrText(NotFoundMsg) /\ sent[p] = <<>>
        /\ env.NVIM = <<>> /\ socketPath = NotFound /\ fs = {}

\* C14: a request that has begun and not yet returned can always take its
\* next step: no worker waits without end inside a channel call, also when
\* the session never answers it.
InFlight(p) == pc[p] \notin {"idle", "done"}

C14_EveryCallReturns ==
    \A p \in Workers :
        InFlight(p) => ENABLED (Steps(p) \/ Reads(p, Selections, DiagLists))

\* C15: every channel call of a request is the next step of its operation,
\* run once: an ExecuteCommand issues clear, execute, read in that order and
\* at most 3 calls, a PopulateQuickfix that sequence at most twice (6), a
\* GetBufferContext at most 5 calls and none twice, a GetDiagnostics at most
\* 1 and exactly 1 once it got past connection and argument binding; after a
\* call that failed the operation issues no further call (PopulateQuickfix
\* goes on after a failed read of its first command, see C3).
Calls(p) == Len(sent[p]) + (IF p \in blocked THEN 1 ELSE 0)
CallLimit(o) ==
    CASE o = "ExecuteCommand" -> 3
      [] o = "PopulateQuickfix" -> 6
      [] o = "GetBufferContext" -> 5
      [] o = "GetDiagnostics" -> 1
      [] OTHER -> 0
IsExecuteExpr(expr) == HasPrefix(expr, <<"execute", "(">>) /\ expr # ClearExpr
InStepOrder(p) ==
    \A i \in 1..Len(sent[p]) :
        CASE i % 3 = 1 -> sent[p][i].expr = ClearExpr
          [] i % 3 = 2 -> IsExecuteExpr(sent[p][i].expr)
          [] OTHER -> sent[p][i].expr = ReadErrExpr
NoneTwice(p) ==
    \A i, j \in 1..Len(sent[p]) : sent[p][i].expr = sent[p][j].expr => i = j
PastBinding(p) == pc[p] = "done" /\ result[p] \notin {ErrText(NotFoundMsg), ErrText(BindMsg)}

C15_NoRetries ==
    \A p \in Workers :
        /\ Calls(p) <= CallLimit(op[p])
        /\ op[p] \in {"ExecuteCommand", "PopulateQuickfix"} => InStepOrder(p)
        /\ op[p] \in {"ExecuteCommand", "GetBufferContext", "GetDiagnostics"} => NoneTwice(p)
        /\ (op[p] = "GetDiagnostics" /\ PastBinding(p)) => Calls(p) = 1
        /\ \A i \in 1..Len(sent[p]) :
             ~sent[p][i].ok => (i = Len(sent[p]) \/ (op[p] = "PopulateQuickfix" /\ i = 3))

\* C15 witness: a PopulateQuickfix returned after its sixth call, which failed.
C15_Witness ==
    \E p \in Workers :
        /\ op[p] = "PopulateQuickfix" /\ pc[p] = "done"
        /\ Len(sent[p]) = 6 /\ ~sent[p][6].ok

\* C16: with overlapping requests, a call returns RemoteError only for an
\* error its own command raised, and a call whose check step read the error
\* state returns success only if its own command raised none.
C16_OwnCommandOnly ==
    \A p \in Workers :
        /\ IsRemoteError(returned[p]) => seen[p].by = p
        /\ (returned[p] # NoReturn /\ returned[p].ok /\ seen[p].read)
             => Stripped(raised[p]) = <<>>

\* C17: a channel call of GetBufferContext or GetDiagnostics leaves the
\* session's error state as it was, whatever else is in flight, so the check
\* step of an ExecuteCommand reads what it would have read without it.
IsRead(p) == op[p] \in {"GetBufferContext", "GetDiagnostics"}

ContextLabels ==
    {"FILE_PATH:", "CURSOR:", "MODE:", "VISUAL_SELECTION:", "SELECTED_TEXT:", "CURRENT_LINE:"}
LabelsOf(text) == SelectSeq(text, LAMBDA t : t \in ContextLabels)
CallOrder(visual) ==
    << [expr |-> <<"expand('%:p')">>, label |-> "FILE_PATH:"],
       [expr |-> <<"printf('%d:%d', line('.'), col('.'))">>, label |-> "CURSOR:"],
       [expr |-> <<"mode()">>, label |-> "MODE:"] >>
    \o (IF visual
        THEN << [expr |-> <<"printf('%d:%d to %d:%d', getpos('v')..., getpos('.')...)">>,
                 label |-> "VISUAL_SELECTION:"],
                [expr |-> <<"luaeval('selected text')">>, label |-> "SELECTED_TEXT:"] >>
        ELSE << [expr |-> <<"getline('.')">>, label |-> "CURRENT_LINE:"] >>)
Answered(p) == {i \in 1..Len(sent[p]) : sent[p][i].ok}

C18_ContextCallsInOrder ==
    \A p \in Workers :
        op[p] = "GetBufferContext" =>
            LET order == CallOrder(mode[p] \in VisualIndicators)
                n == Len(sent[p])
            IN  /\ n <= Len(order)
                /\ \A i \in 1..n : sent[p][i].expr = order[i].expr
                /\ \A i \in 1..n : ~sent[p][i].ok => i = n
                /\ IF Answered(p) = 1..n
                   THEN /\ LabelsOf(output[p]) = [i \in 1..n |-> order[i].label]
                        /\ pc[p] = "done" =>
                             \/ n = Len(order) /\ result[p] = OkText(output[p])
                             \/ /\ n = 0 /\ result[p].isError
                                /\ Range(result[p].text) \cap ContextLabels = {}
                   ELSE /\ pc[p] = "done" /\ result[p].isError
                        /\ output[p] = <<>>
                        /\ Range(result[p].text) \cap ContextLabels = {}

\* C18 witness: in visual mode the fifth call failed after four answers.
C18_Witness ==
    \E p \in Workers :
        /\ op[p] = "GetBufferContext" /\ pc[p] = "done"
        /\ Len(sent[p]) = 5 /\ ~sent[p][5].ok /\ sent[p][4].ok
        /\ result[p].isError

\* C19: when the selected-text call of a GetBufferContext was answered, the
\* SELECTED_TEXT value is the buffer lines from the smaller to the larger of
\* the anchor line and the cursor line, joined by newlines, whatever the
\* direction of the selection and whatever the two columns.
SelectedAnswered(p) ==
    /\ op[p] = "GetBufferContext" /\ pc[p] = "done"
    /\ Len(sent[p]) = 5 /\ sent[p][5].ok
LabelAt(text, label) == CHOOSE k \in 1..Len(text) : text[k] = label
SelectedTextValue(p) ==
    SubSeq(output[p], LabelAt(output[p], "SELECTED_TEXT:") + 1, Len(output[p]) - 1)
Min(a, b) == IF a <= b THEN a ELSE b
Max(a, b) == IF a >= b THEN a ELSE b
WholeLines(h) ==
    Join(SubSeq(h.buffer, Min(h.anchor[1], h.cursor[1]), Max(h.anchor[1], h.cursor[1])),
         <<"\n">>)

C19_SelectedTextIsWholeLines ==
    \A p \in Workers :
        SelectedAnswered(p) => SelectedTextValue(p) = WholeLines(held[p])

\* C20: when the session held one or more diagnostic records, GetDiagnostics
\* returns one line DIAGNOSTIC:<line>:<col>:<severity>:<message> per record,
\* in the order of the records, with line and col the 0-based values plus one
\* and severity ERROR, WARN, INFO, HINT for the codes 1 to 4 and UNKNOWN for
\* any other code.
SeverityName(code) ==
    CASE code = 1 -> "ERROR"
      [] code = 2 -> "WARN"
      [] code = 3 -> "INFO"
      [] code = 4 -> "HINT"
      [] OTHER -> "UNKNOWN"
DiagnosticLine(d) ==
    <<"DIAGNOSTIC:", ToString(d.lnum + 1), ":", ToString(d.col + 1), ":",
      SeverityName(d.severity), ":">> \o d.message
\* The lines of a text: the stretches between its newlines.
RECURSIVE LinesOf(_)
LinesOf(text) ==
    IF \A k \in 1..Len(text) : text[k] # "\n" THEN <<text>>
    ELSE LET k == CHOOSE j \in 1..Len(text) :
                      text[j] = "\n" /\ \A i \in 1..(j - 1) : text[i] # "\n"
         IN  <<SubSeq(text, 1, k - 1)>> \o LinesOf(SubSeq(text, k + 1, Len(text)))

C20_OneLinePerRecord ==
    \A p \in Workers :
        (DiagnosticsAnswered(p) /\ Len(held[p].diagnostics) >= 1) =>
            /\ ~result[p].isError
            /\ LinesOf(result[p].text) =
                 [i \in 1..Len(held[p].diagnostics) |-> DiagnosticLine(held[p].diagnostics[i])]

\* C21: the stored socket path changes only at the start of an operation,
\* only while it is empty, and only to what findNvimSocket finds then; a
\* request is answered "no Neovim instance found" only when it began with
\* the empty path; a non-empty stored path is left as it is by every step
\* of every operation and by the editor coming and going, also after
\* channel calls against it have failed.  So it is set at most once.
C21_DiscoveredAtMostOnce ==
    [][/\ socketPath # <<>> => socketPath' = socketPath
       /\ socketPath' # socketPath =>
             /\ \E p \in Workers : Begins(p)
             /\ socketPath' = findNvimSocket(env, fs)
       /\ \A p \in Workers :
             (Begins(p) /\ result'[p] = ErrText(NotFoundMsg)) => socketPath = <<>>]_vars

\* C21 witness: a request has ended after a failed channel call against a
\* stored path whose socket is gone, while findNvimSocket would now find
\* another socket; the stored path is still the old one.
C21_Witness ==
    /\ socketPath # <<>> /\ socketPath \notin fs
    /\ findNvimSocket(env, fs) \notin {<<>>, socketPath}
    /\ \E p \in Workers :
        /\ pc[p] = "done" /\ sent[p] # <<>>
        /\ ~sent[p][Len(sent[p])].ok

\* C22: no channel call is issued while the stored socket path is empty: a
\* worker about to call remoteExpr, or one that has called it, works with a
\* non-empty path; every request either has a non-empty path stored when its
\* handler has begun or ends there with an error result and no channel
\* call; and every step that issues a call is taken with a non-empty path.
IssuesCall(p) == Len(sent'[p]) > Len(sent[p])
C22_NoCallWithEmptyPath ==
    /\ \A p \in Workers :
          (pc[p] \in CallPositions \/ sent[p] # <<>> \/ p \in blocked) => socketPath # <<>>
    /\ [][\A p \in Workers :
            /\ IssuesCall(p) => socketPath # <<>>
            /\ Begins(p) =>
                  \/ socketPath' # <<>>
                  \/ pc'[p] = "done" /\ result'[p].isError /\ sent'[p] = <<>>]_vars

\* C22 witness: an editor listens on a socket the client does not look at
\* (the working directory cannot be named), the stored path is empty, and
\* executeCommand has ended with an error and without a channel call.
C22_Witness ==
    /\ socketPath = <<>> /\ fs # {} /\ findNvimSocket(env, fs) = <<>>
    /\ \E p \in Workers :
        /\ op[p] = "ExecuteCommand" /\ pc[p] = "done"
        /\ result[p].isError /\ sent[p] = <<>>

\* C23: once the caller has cancelled a request, no channel process of that
\* request keeps running: its worker is not held inside cmd.Run by a process
\* that does not exit, so the request can take its next step and return.
C23_CancelEndsProcess ==
    \A p \in Workers :
        p \in cancelled =>
            /\ p \notin blocked
            /\ ENABLED (Steps(p) \/ Reads(p, Selections, DiagLists))

\* C24: the send-keystrokes ExecuteCommand passes to --remote-send the keys
\* <C-\><C-n> <Esc> <Esc> ':' followed by the command text and <CR>;
\* whatever mode the editor was in, it is in command-line mode, with nothing
\* typed yet, when it takes the first key of the command text (or the
\* closing <CR> of an empty text); and a nonzero exit of the process is
\* returned as a failure that carries what the process wrote to standard
\* error.
ForceNormal == <<"<C-\\><C-n>", "<Esc>", "<Esc>">>
Transmitted(r) == r.keys # <<>>
AtCommandText ==
    /\ typeahead # <<>>
    /\ Head(typeahead).first

C24_KeysReachCommandLine ==
    /\ Transmitted(sendLog) => sendLog.keys = ForceNormal \o <<":">> \o sendLog.cmd \o <<"<CR>">>
    /\ AtCommandText => (editorMode = "c" /\ cmdline = <<>>)
    /\ (Transmitted(sendLog) /\ sendLog.result.isError) =>
          /\ Head(sendLog.result.text) = "failed to execute command: "
          /\ \E k \in 1..Len(sendLog.result.text) :
                /\ sendLog.result.text[k] = ", stderr: "
                /\ SubSeq(sendLog.result.text, k + 1, Len(sendLog.result.text)) = sendLog.stderr

\* C24 witness: the editor was in terminal mode when the keys of a send
\* reached it and is about to take the first key of the command text; a
\* later send has failed with standard-error output.
C24_Witness ==
    /\ AtCommandText
    /\ startedIn = "t"
    /\ Transmitted(sendLog) /\ sendLog.result.isError /\ sendLog.stderr # <<>>

====
